---- MODULE Spec2Model ----
(***************************************************************************)
(* Model of build_standalone_validator.py: the sequential pipeline of      *)
(* main() (entry-point check, check_dependencies, clean_build_dirs,        *)
(* build_executable, test_executable, print_summary) run against an        *)
(* environment made of the working directory, the importable packages and  *)
(* the outcome of the external packaging tool.  Successive runs of main()  *)
(* share the filesystem and the installed packages.                        *)
(***************************************************************************)
EXTENDS Integers, Sequences, FiniteSets, TLC

\* Number of successive runs of main() that are explored.
MaxRuns == 2

Libs == {"h5py", "PyInstaller"}
Systems == {"Windows", "Linux"}

\* State of a file of the working directory.  "readonly": unlink fails until
\* the write bit is set (the Windows read-only attribute); "locked": unlink
\* fails whatever the mode (held open by another process, parent not writable).
Attrs == {"absent", "plain", "readonly", "locked"}

\* What happens inside build_executable: loading PyInstaller.__main__ raises
\* ImportError; run(args) raises an Exception; run(args) raises
\* SystemExit("<message>"), the way the tool gives up on a build (a
\* BaseException that is no Exception); run returns having written the
\* binary; run returns without a binary at the expected path.
BuildOutcomes == {"LoadError", "Exception", "SystemExit", "Written", "NoBinary"}

\* Paths are sequences of name parts, so that appending and stripping the
\* ".exe" suffix is computed and not assumed.
BaseName == <<"mth5-validator">>
WorkFile == <<"build", "work">>
SpecFile == BaseName \o <<".spec">>
DistFiles == {<<"dist">> \o BaseName,
              <<"dist">> \o BaseName \o <<".exe">>,
              <<"dist">> \o BaseName \o <<".exe", ".exe">>}
Files == {WorkFile, SpecFile} \cup DistFiles

VARIABLES
    system,        \* platform.system()
    entryExists,   \* Path("mth5_validator_standalone.py").exists()
    importable,    \* which of the two libraries can be imported
    installWorks,  \* whether "pip install <lib>" makes the library importable
    buildOutcome,  \* what the packaging tool does when invoked
    fs,            \* working directory: file -> attribute
    fsAtStart,     \* the working directory as the current run found it
    fresh,         \* files written by the build of the current run
    pc,            \* position in main()
    stages,        \* stages invoked so far in the current run, in order
    exitCode,      \* process exit status, -1 while running
    depsResult,    \* return value of check_dependencies ("none" before)
    buildResult,   \* return value of build_executable ("none": did not return)
    testResult,    \* return value of test_executable
    installCalls,  \* os.system(pip install ...) calls of the current run, per lib
    reimported,    \* libs whose import was re-attempted after their install
    log,           \* messages printed by the current run
    toolArgs,      \* argument vector handed to PyInstaller.__main__.run
    run,           \* index of the current run
    prevBinary     \* binary presence at the end of the previous run

vars == <<system, entryExists, importable, installWorks, buildOutcome, fs, fsAtStart, fresh,
          pc, stages, exitCode, depsResult, buildResult, testResult,
          installCalls, reimported, log, toolArgs, run, prevBinary>>

----------------------------------------------------------------------------
\* Helpers on paths and the filesystem

\* str.replace(old, ""): every occurrence of the part is dropped.
Replace(name, part) == SelectSeq(name, LAMBDA t : t # part)

\* exe_name of build_executable (lines 116-118)
ExeName(sys) == IF sys = "Windows" THEN BaseName \o <<".exe">> ELSE BaseName

\* exe_path of test_executable and print_summary
ExePath(sys) ==
    <<"dist">> \o (IF sys = "Windows" THEN BaseName \o <<".exe">> ELSE BaseName)

Exists(f, p) == p \in DOMAIN f /\ f[p] # "absent"

DirFiles(dir) == {p \in Files : Len(p) > 1 /\ p[1] = dir}

\* os.path.exists(dir_name)
DirExists(f, dir) == \E p \in DirFiles(dir) : f[p] # "absent"

\* Path(".").glob("*.spec")
GlobSpec(f) == {p \in Files : p[Len(p)] = ".spec" /\ f[p] # "absent"}

\* os.unlink / os.remove on one file: succeeds only on a plain file.
Unlink(a) == IF a = "plain" THEN "absent" ELSE a
UnlinkFails(a) == a \in {"readonly", "locked"}

\* os.chmod(path, stat.S_IWRITE)
Chmod(a) == IF a = "readonly" THEN "plain" ELSE a

BinaryPresence(f, sys) == IF Exists(f, ExePath(sys)) THEN "present" ELSE "absent"

Msg(kind, item) == [kind |-> kind, item |-> item]

----------------------------------------------------------------------------
\* check_dependencies (lines 42-71)

\* The h5py installation sits after the try statement instead of in its
\* except branch.
Mut_ImportFails(imp, lib) == lib = "h5py" \/ ~imp[lib]

\* "try: import <lib> ... except ImportError:" -- the except branch is taken
\* exactly when the library cannot be imported.
ImportFails(imp, lib) == ~imp[lib]

\* os.system(f"{sys.executable} -m pip install <lib>"): the library becomes
\* importable when the installation works; os.system itself never raises.
PipInstall(imp, works, lib) == [imp EXCEPT ![lib] = works[lib]]

\* The whole function: new package state, installer calls, re-attempted
\* imports, messages and the returned boolean.
check_dependencies(imp, works) ==
    LET h5Fail == ImportFails(imp, "h5py")
        imp1   == IF h5Fail THEN PipInstall(imp, works, "h5py") ELSE imp
        pyFail == ImportFails(imp1, "PyInstaller")
        imp2   == IF pyFail THEN PipInstall(imp1, works, "PyInstaller") ELSE imp1
        \* lines 64-71: the second "import PyInstaller"
        pyOk   == IF pyFail THEN ~ImportFails(imp2, "PyInstaller") ELSE TRUE
    IN  [importable |-> imp2,
         calls      |-> [l \in Libs |->
                           IF l = "h5py" THEN (IF h5Fail THEN 1 ELSE 0)
                                         ELSE (IF pyFail THEN 1 ELSE 0)],
         reimported |-> IF pyFail THEN {"PyInstaller"} ELSE {},
         log        |-> (IF h5Fail THEN {Msg("not found - installing", <<"h5py">>)}
                                   ELSE {Msg("OK", <<"h5py">>)})
                        \cup (IF ~pyFail THEN {Msg("OK", <<"PyInstaller">>)}
                              ELSE {Msg("not found - installing", <<"PyInstaller">>)}
                                   \cup (IF pyOk
                                         THEN {Msg("OK installed", <<"PyInstaller">>)}
                                         ELSE {Msg("Failed to install", <<"PyInstaller">>)})),
         result     |-> pyOk]

----------------------------------------------------------------------------
\* clean_build_dirs (lines 74-108)

\* The handler clears the read-only attribute and forgets the retry.
Mut_handle_remove_readonly(a) == Chmod(a)

\* handle_remove_readonly(func, path, exc): chmod, retry, swallow any failure.
handle_remove_readonly(a) == Unlink(Chmod(a))

\* What shutil.rmtree(dir, onerror=handle_remove_readonly) does to one entry:
\* a failed unlink is handed to the handler and rmtree goes on.
RmEntry(a) == IF UnlinkFails(a) THEN handle_remove_readonly(a) ELSE Unlink(a)

\* shutil.rmtree(dir_name, onerror=handle_remove_readonly).  Every OSError is
\* routed to the handler, which raises nothing, so the call always returns.
RmTree(f, dir) == [p \in DOMAIN f |-> IF p \in DirFiles(dir) THEN RmEntry(f[p]) ELSE f[p]]

\* Messages of the directory loop (lines 93-100): rmtree returned, so the
\* "Removed" line is printed; the except branch needs rmtree to raise.
DirLog(f, dir) == IF DirExists(f, dir) THEN {Msg("Removed", <<dir>>)} ELSE {}

\* The glob loop (lines 102-108): file.unlink() with no retry.
UnlinkSpecs(f) == [p \in DOMAIN f |-> IF p \in GlobSpec(f) THEN Unlink(f[p]) ELSE f[p]]

SpecLog(f) == {Msg(IF UnlinkFails(f[p]) THEN "Warning" ELSE "Removed", p) : p \in GlobSpec(f)}

\* dirs_to_clean lists only "build".
Mut_clean_build_dirs(f) ==
    LET f1 == IF DirExists(f, "build") THEN RmTree(f, "build") ELSE f
        f3 == UnlinkSpecs(f1)
    IN  [fs  |-> f3,
         log |-> DirLog(f, "build") \cup SpecLog(f1)]

\* The whole function: dirs_to_clean in order, then files_to_clean.
clean_build_dirs(f) ==
    LET f1 == IF DirExists(f, "build") THEN RmTree(f, "build") ELSE f
        f2 == IF DirExists(f1, "dist") THEN RmTree(f1, "dist") ELSE f1
        f3 == UnlinkSpecs(f2)
    IN  [fs  |-> f3,
         log |-> DirLog(f, "build") \cup DirLog(f1, "dist") \cup SpecLog(f2)]

----------------------------------------------------------------------------
\* build_executable (lines 111-170)

\* The output name is passed with its suffix.
Mut_NameArg(sys) == <<"--name=">> \o ExeName(sys)

\* f'--name={exe_name.replace(".exe", "")}'
NameArg(sys) == <<"--name=">> \o Replace(ExeName(sys), ".exe")

\* args (lines 124-153); an argument is the sequence of its parts.
BuildArgs(sys) ==
    << <<"mth5_validator_standalone.py">>,
       <<"--onefile">>,
       NameArg(sys),
       <<"--console">>,
       <<"--clean">>,
       <<"--collect-all=", "h5py">>,
       <<"--hidden-import=", "h5py.defs">>,
       <<"--hidden-import=", "h5py.utils">>,
       <<"--hidden-import=", "h5py._proxy">>,
       <<"--hidden-import=", "h5py.h5ac">>,
       <<"--copy-metadata=", "h5py">>,
       <<"--copy-metadata=", "numpy">>,
       <<"--exclude-module=", "matplotlib">>,
       <<"--exclude-module=", "scipy">>,
       <<"--exclude-module=", "pandas">>,
       <<"--exclude-module=", "tkinter">>,
       <<"--exclude-module=", "PyQt5">>,
       <<"--exclude-module=", "PyQt6">>,
       <<"--exclude-module=", "jupyter">>,
       <<"--exclude-module=", "IPython">>,
       <<"--exclude-module=", "pytest">>,
       <<"--exclude-module=", "obspy">>,
       <<"--exclude-module=", "mt_metadata">>,
       <<"--exclude-module=", "mth5">>,
       <<"--log-level=", "WARN">> >>

\* The packaging tool, seen from the script: with --onefile and --name=N it
\* writes build/, N.spec and dist/N (dist/N.exe on Windows).  A locked file
\* cannot be overwritten and stays as it was.
ToolOutputs(args, sys) ==
    LET i == CHOOSE j \in DOMAIN args : args[j][1] = "--name="
        n == Tail(args[i])
    IN  {WorkFile, n \o <<".spec">>,
         <<"dist">> \o n \o (IF sys = "Windows" THEN <<".exe">> ELSE <<>>)}

Written(f, P) == {p \in P \cap DOMAIN f : f[p] # "locked"}

ToolWrite(f, P) == [p \in DOMAIN f |-> IF p \in Written(f, P) THEN "plain" ELSE f[p]]

\* The try/except of lines 162-170: "except Exception" catches what run()
\* raises unless it is a SystemExit.
Caught(outcome) == outcome = "Exception"

----------------------------------------------------------------------------
\* main() (lines 254-287), one action per stage

Order == <<"entry", "deps", "clean", "build", "test", "summary">>

TypeOK ==
    /\ system \in Systems /\ entryExists \in BOOLEAN
    /\ importable \in [Libs -> BOOLEAN] /\ installWorks \in [Libs -> BOOLEAN]
    /\ buildOutcome \in BuildOutcomes
    /\ fs \in [Files -> Attrs] /\ fsAtStart \in [Files -> Attrs] /\ fresh \subseteq Files
    /\ pc \in {"entry", "deps", "clean", "build", "test", "summary", "exit"}
    /\ exitCode \in {-1, 0, 1}
    /\ depsResult \in {"none", "true", "false"}
    /\ buildResult \in {"none", "true", "false"}
    /\ testResult \in {"none", "true", "false"}
    /\ installCalls \in [Libs -> 0..1] /\ reimported \subseteq Libs
    /\ run \in 1..MaxRuns /\ prevBinary \in {"none", "present", "absent"}

\* The state a run of main() starts in.
FreshRun ==
    /\ pc = "entry" /\ stages = <<>> /\ exitCode = -1
    /\ depsResult = "none" /\ buildResult = "none" /\ testResult = "none"
    /\ installCalls = [l \in Libs |-> 0] /\ reimported = {}
    /\ log = {} /\ toolArgs = <<>> /\ fresh = {}

\* Leftovers of an earlier build are the ones the platform's tool writes.
Init ==
    /\ system \in Systems
    /\ entryExists \in BOOLEAN
    /\ importable \in [Libs -> BOOLEAN]
    /\ installWorks \in [Libs -> BOOLEAN]
    /\ buildOutcome \in BuildOutcomes
    /\ fs \in {f \in [Files -> Attrs] :
                 \A p \in DistFiles : p # ExePath(system) => f[p] = "absent"}
    /\ fsAtStart = fs
    /\ FreshRun
    /\ run = 1 /\ prevBinary = "none"

Bool(b) == IF b THEN "true" ELSE "false"

\* Where main() goes after each call: "if not ...: sys.exit(1)".
\* The entry-point check prints its error and forgets to exit.
Mut_AfterEntry(exists) == "deps"

AfterEntry(exists) == IF exists THEN "deps" ELSE "exit"

AfterDeps(ok) == IF ok THEN "clean" ELSE "exit"

\* The build failure is reported but the run is not ended.
Mut_AfterBuild(ok) == "test"

AfterBuild(ok) == IF ok THEN "test" ELSE "exit"

\* The smoke test is treated as a gate like the others.
Mut_AfterTest(ok) == IF ok THEN "summary" ELSE "exit"

\* The value of test_executable() is discarded (line 282).
AfterTest(ok) == "summary"

\* Leaving main() before its "return 0" is sys.exit(1), an uncaught
\* exception or an uncaught SystemExit carrying a message: the interpreter
\* ends the process with status 1 in each case.
Goto(target) == pc' = target /\ exitCode' = (IF target = "exit" THEN 1 ELSE -1)

\* lines 262-266
CheckEntry ==
    /\ pc = "entry"
    /\ stages' = Append(stages, "entry")
    /\ IF ~entryExists
       THEN log' = log \cup {Msg("Error: not found", <<"mth5_validator_standalone.py">>)}
       ELSE UNCHANGED log
    /\ Goto(AfterEntry(entryExists))
    /\ UNCHANGED <<system, entryExists, fsAtStart, importable, installWorks, buildOutcome, fs,
                   fresh, depsResult, buildResult, testResult, installCalls,
                   reimported, toolArgs, run, prevBinary>>

\* lines 268-271
DepsStage ==
    /\ pc = "deps"
    /\ stages' = Append(stages, "deps")
    /\ LET r == check_dependencies(importable, installWorks)
       IN  /\ importable' = r.importable
           /\ installCalls' = r.calls
           /\ reimported' = r.reimported
           /\ depsResult' = Bool(r.result)
           /\ log' = log \cup r.log
                      \cup (IF ~r.result THEN {Msg("Cannot proceed", <<>>)} ELSE {})
           /\ Goto(AfterDeps(r.result))
    /\ UNCHANGED <<system, entryExists, fsAtStart, installWorks, buildOutcome, fs, fresh,
                   buildResult, testResult, toolArgs, run, prevBinary>>

\* lines 273-274
CleanStage ==
    /\ pc = "clean"
    /\ stages' = Append(stages, "clean")
    /\ LET r == clean_build_dirs(fs)
       IN  /\ fs' = r.fs
           /\ log' = log \cup r.log
    /\ Goto("build")
    /\ UNCHANGED <<system, entryExists, fsAtStart, importable, installWorks, buildOutcome,
                   fresh, depsResult, buildResult, testResult,
                   installCalls, reimported, toolArgs, run, prevBinary>>

\* lines 276-279 with build_executable (lines 111-170)
BuildStage ==
    /\ pc = "build"
    /\ stages' = Append(stages, "build")
    /\ IF buildOutcome = "LoadError"
       THEN \* line 113 raises outside the try block
            /\ Goto("exit")
            /\ UNCHANGED <<toolArgs, fs, fresh, buildResult, log>>
       ELSE /\ toolArgs' = BuildArgs(system)
            /\ IF buildOutcome \in {"Written", "NoBinary"}
               THEN /\ LET P == IF buildOutcome = "Written"
                                THEN ToolOutputs(BuildArgs(system), system)
                                ELSE {WorkFile}
                       IN  /\ fs' = ToolWrite(fs, P)
                           /\ fresh' = Written(fs, P)
                    /\ buildResult' = "true"
                    /\ log' = log \cup {Msg("Build completed successfully", <<>>)}
                    /\ Goto(AfterBuild(TRUE))
               ELSE /\ UNCHANGED <<fs, fresh>>
                    /\ IF Caught(buildOutcome)
                       THEN /\ buildResult' = "false"
                            /\ log' = log \cup {Msg("Build failed: e", <<>>),
                                                Msg("Build failed", <<>>)}
                            /\ Goto(AfterBuild(FALSE))
                       ELSE \* the exception leaves build_executable and main
                            /\ Goto("exit")
                            /\ UNCHANGED <<buildResult, log>>
    /\ UNCHANGED <<system, entryExists, fsAtStart, importable, installWorks, buildOutcome,
                   depsResult, testResult, installCalls, reimported, run, prevBinary>>

\* lines 281-282 with test_executable (lines 173-202); the status of the
\* "--help" invocation is whatever the binary returns.
TestStage ==
    /\ pc = "test"
    /\ stages' = Append(stages, "test")
    /\ IF ~Exists(fs, ExePath(system))
       THEN /\ testResult' = "false"
            /\ log' = log \cup {Msg("Executable not found", ExePath(system))}
            /\ Goto(AfterTest(FALSE))
       ELSE \E status \in {0, 1} :
               /\ testResult' = Bool(status = 0)
               /\ log' = log \cup {Msg(IF status = 0 THEN "Executable test passed"
                                                    ELSE "Executable test failed", <<>>)}
               /\ Goto(AfterTest(status = 0))
    /\ UNCHANGED <<system, entryExists, fsAtStart, importable, installWorks, buildOutcome, fs,
                   fresh, depsResult, buildResult, installCalls,
                   reimported, toolArgs, run, prevBinary>>

\* lines 284-287 with print_summary (lines 205-251); main() returns 0.
SummaryStage ==
    /\ pc = "summary"
    /\ stages' = Append(stages, "summary")
    /\ log' = log \cup {Msg(IF Exists(fs, ExePath(system))
                            THEN "Standalone executable created"
                            ELSE "Build failed - executable not found", ExePath(system))}
    /\ pc' = "exit"
    /\ exitCode' = 0
    /\ UNCHANGED <<system, entryExists, fsAtStart, importable, installWorks, buildOutcome, fs,
                   fresh, depsResult, buildResult, testResult, installCalls,
                   reimported, toolArgs, run, prevBinary>>

\* The script is started again in the directory and environment the
\* previous run left.
NextRun ==
    /\ pc = "exit"
    /\ run < MaxRuns
    /\ run' = run + 1
    /\ prevBinary' = BinaryPresence(fs, system)
    /\ pc' = "entry" /\ stages' = <<>> /\ exitCode' = -1
    /\ depsResult' = "none" /\ buildResult' = "none" /\ testResult' = "none"
    /\ installCalls' = [l \in Libs |-> 0] /\ reimported' = {}
    /\ log' = {} /\ toolArgs' = <<>> /\ fresh' = {}
    /\ fsAtStart' = fs
    /\ UNCHANGED <<system, entryExists, importable, installWorks, buildOutcome, fs>>

Next ==
    \/ CheckEntry
    \/ DepsStage
    \/ CleanStage
    \/ BuildStage
    \/ TestStage
    \/ SummaryStage
    \/ NextRun

Spec == Init /\ [][Next]_vars

\* The process is alone and every call it makes returns: a stage that can
\* run does run.
LiveSpec == Spec /\ WF_vars(Next)

----------------------------------------------------------------------------
\* Properties

Range(q) == {q[i] : i \in DOMAIN q}

IsPrefix(q, t) == Len(q) <= Len(t) /\ \A i \in DOMAIN q : q[i] = t[i]

Ran(stage) == stage \in Range(stages)

NoInstall == \A l \in Libs : installCalls[l] = 0

\* C1: when the entry-point file is missing the run ends with status 1 and
\* nothing but the entry check has happened: no installer call, no deletion,
\* no build, no smoke test.
C1_MissingEntryAborts ==
    ~entryExists =>
        /\ pc \in {"entry", "exit"}
        /\ IsPrefix(stages, <<"entry">>)
        /\ NoInstall /\ fs = fsAtStart /\ toolArgs = <<>> /\ testResult = "none"
        /\ pc = "exit" => exitCode = 1

C1_Witness == ~entryExists /\ pc = "exit" /\ exitCode = 1 /\ stages = <<"entry">>

\* C2: for each of the two libraries a failed import is followed by one
\* installer call, and a library still missing after its install makes
\* check_dependencies return failure and the run end with status 1 before
\* the cleaner and the builder.
C2_Original ==
    depsResult # "none" =>
        /\ \A l \in Libs : installCalls[l] <= 1
        /\ (\E l \in Libs : installCalls[l] = 1 /\ ~importable[l]) =>
              /\ depsResult = "false"
              /\ exitCode = 1
              /\ ~Ran("clean") /\ ~Ran("build")

\* C3: every failure inside build_executable is caught and logged, makes it
\* return failure, and ends the run with status 1 without smoke test or
\* summary.
C3_Original ==
    (Ran("build") /\ buildOutcome \in {"LoadError", "Exception", "SystemExit"}) =>
        /\ Msg("Build failed: e", <<>>) \in log
        /\ buildResult = "false"
        /\ exitCode = 1
        /\ ~Ran("test") /\ ~Ran("summary")

\* C4: at the end of a run the status is 0 exactly when the entry point
\* existed, check_dependencies returned success and build_executable returned
\* success, and 1 otherwise; a failed smoke test leaves the status 0 and is
\* followed by the summary.
C4_ExitCode ==
    pc = "exit" =>
        /\ exitCode \in {0, 1}
        /\ exitCode = 0 <=>
              (entryExists /\ depsResult = "true" /\ buildResult = "true")
        /\ testResult = "false" => (Ran("summary") /\ exitCode = 0)

C4_Witness ==
    /\ pc = "exit" /\ exitCode = 0 /\ testResult = "false"
    /\ Msg("Executable test failed", <<>>) \in log

\* C5: once the cleaner has returned, every item it could not delete has a
\* warning in the output and is not reported as removed without one.
C5_Original ==
    (pc = "build" /\ Ran("clean")) =>
        /\ \A d \in {"build", "dist"} :
              DirExists(fs, d) => Msg("Warning", <<d>>) \in log
        /\ \A p \in GlobSpec(fs) : Msg("Warning", p) \in log

\* C6 as stated: when build_executable is invoked nothing of build/, dist/ or
\* *.spec is left, and a binary seen afterwards was written by this run.
C6_Original ==
    /\ pc = "build" => \A p \in Files : fs[p] = "absent"
    /\ (Ran("test") /\ Exists(fs, ExePath(system))) => ExePath(system) \in fresh

\* C6 amended: when build_executable is invoked the cleaner has run; files of
\* build/ and dist/ that unlink removes, at once or after chmod, are gone and
\* only those whose deletion still fails are left; of *.spec the files whose
\* single unlink fails are left; a binary seen afterwards was written by
\* this run or is such a leftover.
C6_CleanSlate ==
    /\ pc = "build" =>
          /\ Ran("clean")
          /\ \A p \in DirFiles("build") \cup DirFiles("dist") :
                fs[p] = (IF fsAtStart[p] = "locked" THEN "locked" ELSE "absent")
          /\ \A p \in Files \ (DirFiles("build") \cup DirFiles("dist")) :
                fs[p] = (IF fsAtStart[p] \in {"readonly", "locked"}
                         THEN fsAtStart[p] ELSE "absent")
    /\ (Ran("test") /\ Exists(fs, ExePath(system))) =>
          (ExePath(system) \in fresh \/ fsAtStart[ExePath(system)] = "locked")

C6_Witness ==
    /\ pc = "build"
    /\ fsAtStart[ExePath(system)] = "readonly" /\ fs[ExePath(system)] = "absent"
    /\ fsAtStart[WorkFile] = "readonly" /\ fs[WorkFile] = "absent"

\* C7: a run that starts from what the previous run left, with the same
\* outcomes of import, install and build, ends with the binary present
\* exactly when the previous run did.
C7_Idempotent ==
    (pc = "exit" /\ run > 1) => BinaryPresence(fs, system) = prevBinary

C7_Witness ==
    /\ pc = "exit" /\ run > 1 /\ Ran("build")
    /\ prevBinary = "absent" /\ fsAtStart[WorkFile] # "absent"

\* C8: when both libraries import at the first attempt, check_dependencies
\* calls no installer and returns success.
C8_NoInstallWhenPresent ==
    [][(pc = "deps" /\ \A l \in Libs : importable[l]) =>
          (NoInstall' /\ depsResult' = "true")]_vars

C8_Witness ==
    /\ Ran("deps") /\ depsResult = "true" /\ NoInstall
    /\ Msg("OK", <<"h5py">>) \in log /\ Msg("OK", <<"PyInstaller">>) \in log

CountFlag(args, flag) == Cardinality({i \in DOMAIN args : args[i][1] = flag})

\* What C9 states apart from the number of exclusions.
ArgShape(args) ==
    /\ args[1] = <<"mth5_validator_standalone.py">>
    /\ CountFlag(args, "--onefile") = 1
    /\ CountFlag(args, "--name=") = 1
    /\ \A i \in DOMAIN args : args[i][1] = "--name=" => args[i] = <<"--name=", "mth5-validator">>
    /\ CountFlag(args, "--console") = 1
    /\ CountFlag(args, "--collect-all=") = 1
    /\ CountFlag(args, "--hidden-import=") = 4
    /\ CountFlag(args, "--copy-metadata=") = 2
    /\ CountFlag(args, "--log-level=") = 1

\* C9 as stated: the vector has the stated shape with nine exclusions.
C9_Original ==
    toolArgs # <<>> =>
        /\ ArgShape(toolArgs)
        /\ CountFlag(toolArgs, "--exclude-module=") = 9

\* C9 amended: on every platform the vector is the entry point, single-file
\* mode, the name mth5-validator without suffix, console mode, the cache
\* cleaning flag, one full collection, four hidden imports, two metadata
\* copies, twelve distinct exclusions and the reduced log level, and nothing
\* else.
C9_ArgVector ==
    toolArgs # <<>> =>
        /\ ArgShape(toolArgs)
        /\ CountFlag(toolArgs, "--clean") = 1
        /\ CountFlag(toolArgs, "--exclude-module=") = 12
        /\ Cardinality({toolArgs[i] : i \in DOMAIN toolArgs}) = 25
        /\ Len(toolArgs) = 25

C9_Witness == toolArgs # <<>> /\ system = "Windows" /\ Ran("build")

\* C10: the stages of a run are an initial part of entry check, dependency
\* check, cleaner, builder, smoke test, summary; the cleaner runs only after
\* both gates passed, the smoke test only after the builder returned
\* success; and every run ends with status 0 or 1.
C10_Pipeline ==
    /\ [](/\ IsPrefix(stages, Order)
          /\ Ran("clean") => (entryExists /\ depsResult = "true")
          /\ Ran("test") => buildResult = "true"
          /\ pc = "exit" => (exitCode \in {0, 1} /\ Len(stages) >= 1))
    /\ [](pc # "exit" => <>(pc = "exit" /\ exitCode \in {0, 1}))

C10_Witness == pc = "exit" /\ stages = Order /\ exitCode = 0 /\ run > 1

====
